---- MODULE Spec2Model ----
(***************************************************************************)
(* Record collections of the yep/hexya ORM (yep/models/recordset.go).      *)
(*                                                                         *)
(* A RecordCollection is a Go struct VALUE {mi, callStack, query *Query,   *)
(* env, ids}.  Every method has a value receiver, so the receiver's ids    *)
(* are never changed by a call, while the Query is reached through a       *)
(* pointer and is therefore one heap object shared by every copy of the    *)
(* collection.  The model keeps the heap of Query objects in `queries`     *)
(* and a collection value is the pair [q |-> address, ids |-> list].       *)
(***************************************************************************)
EXTENDS Integers, Sequences, FiniteSets, TLC

\* ------------------------------------------------------------------ bounds
NRec == 3          \* records of the model's table when the environment opens
MaxSteps == 4      \* calls made by the caller in one behaviour
MaxCond == 2       \* clauses of a condition
MaxQueries == 2    \* Pool calls (each allocates one Query)
MaxList == 1       \* entries of the ORDER BY / GROUP BY lists
MaxCreate == 1     \* records inserted by create
MaxStr == 3        \* bytes of the string given to ContainsOnly
MaxLst == 2        \* bytes of the list given to ContainsOnly
MaxPool == 3       \* strings of the pool given to MakeUnique
MaxDigits == 9     \* digits of the number given to FormatNumberStrWithGrouping
MaxGroup == 3      \* values of a NumberGrouping

Names == {"a", "b"}

\* ------------------------------------------------------------------ values
\* interface{} values are tagged so that values of different Go types compare.
StrV(s) == [t |-> "str", s |-> s, n |-> 0]
IntV(n) == [t |-> "int", s |-> "", n |-> n]
NilV == [t |-> "nil", s |-> "", n |-> 0]

Range(s) == {s[i] : i \in 1..Len(s)}

\* ------------------------------------------------------------------ registry
\* The finalized model registry: one model with an int64 identifier, a string
\* field and an int field, all stored.
ModelNames == {"User"}
FieldTypes == [id |-> "int", Name |-> "str", Age |-> "int"]
KnownFields == DOMAIN FieldTypes
DataFields == KnownFields \ {"id"}

\* rc.mi.fields.get(fieldName)
fieldsGet(fieldName) == fieldName \in KnownFields

\* reflect.Zero(fi.structField.Type).Interface()
Zero(fieldName) == IF FieldTypes[fieldName] = "str" THEN StrV("") ELSE IntV(0)

\* rc.mi.fields.nonRelatedFieldJSONNames()
nonRelatedFieldJSONNames == <<"id", "Name", "Age">>

\* ------------------------------------------------------------------ Condition
\* A condition is the list of its AND-ed clauses; a clause is
\* (field, operator, value), possibly negated (AndNot).
NewCondition == <<>>
Clause(neg, fieldName, op, s, l) ==
    [neg |-> neg, field |-> fieldName, op |-> op, s |-> s, l |-> l]
And(cond, fieldName, op, s, l) == Append(cond, Clause(FALSE, fieldName, op, s, l))
AndNot(cond, fieldName, op, s, l) == Append(cond, Clause(TRUE, fieldName, op, s, l))
AndCond(cond, other) == cond \o other

ClauseHolds(cl, id, rec) ==
    LET base == IF cl.op = "in" THEN id \in Range(cl.l) ELSE rec[cl.field] = StrV(cl.s)
    IN  base # cl.neg
Matches(cond, id, rec) == \A i \in 1..Len(cond) : ClauseHolds(cond[i], id, rec)

\* ------------------------------------------------------------------ Query
\* newQuery(): an empty condition, no limit, no offset, no back-reference yet.
newQuery ==
    [cond |-> NewCondition, limit |-> 0, offset |-> 0, orders |-> <<>>,
     groups |-> <<>>, distinct |-> FALSE, recordSet |-> [q |-> 0, ids |-> <<>>]]

\* The query shape: what the shape mutators set and the select query renders.
Shape(q) ==
    <<q.cond, q.limit, q.offset, q.orders, q.groups, q.distinct>>

\* The key a row is ordered by: ORDER BY Name orders by name then id.
Before(orders, d, i, j) ==
    IF orders # <<>> /\ d[i]["Name"] # d[j]["Name"]
    THEN d[i]["Name"].s = "a"
    ELSE i < j

RECURSIVE SortedSeq(_, _, _)
SortedSeq(S, orders, d) ==
    IF S = {} THEN <<>>
    ELSE LET m == CHOOSE x \in S : \A y \in S \ {x} : Before(orders, d, x, y)
         IN  <<m>> \o SortedSeq(S \ {m}, orders, d)

Min(a, b) == IF a < b THEN a ELSE b

\* The condition the statements are restricted by: the identifiers of the
\* collection the query refers back to (q.recordSet) when it has some, and
\* the condition of the query.
WhereOf(q) ==
    IF Len(q.recordSet.ids) > 0
    THEN Append(q.cond, Clause(FALSE, "ID", "in", "", q.recordSet.ids))
    ELSE q.cond

\* selectQuery + DBQuery: the identifiers of the returned rows, in row order.
SelectIds(q, d) ==
    LET all == SortedSeq({id \in DOMAIN d : Matches(WhereOf(q), id, d[id])}, q.orders, d)
        from == Min(q.offset, Len(all)) + 1
        to == IF q.limit > 0 THEN Min(Len(all), q.offset + q.limit) ELSE Len(all)
    IN  SubSeq(all, from, to)

\* filterOnDBFields: the requested fields that are columns (the identifier
\* column is always part of a row, Read reads line["id"]).
filterOnDBFields(fields) == (Range(fields) \cap KnownFields) \cup {"id"}

\* scanToFieldMap: one fetched row as a FieldMap.
RowOf(d, id, dbFields) ==
    [f \in dbFields |-> IF f = "id" THEN IntV(id) ELSE d[id][f]]

\* ------------------------------------------------------------------ Cache
\* cache.addEntry(model, id, fMap): replaces the field slate of the record.
addEntry(c, id, fMap) ==
    [x \in DOMAIN c \cup {id} |-> IF x = id THEN fMap ELSE c[x]]

\* cache.checkIfInCache(mi, ids, fieldNames)
checkIfInCache(c, ids, fieldNames) ==
    \A i \in 1..Len(ids) :
        /\ ids[i] \in DOMAIN c
        /\ \A k \in 1..Len(fieldNames) : fieldNames[k] \in DOMAIN c[ids[i]]

\* cache.get(model, id, fieldName): the cached value, nil when there is none.
cacheGet(c, id, fieldName) ==
    IF id \in DOMAIN c /\ fieldName \in DOMAIN c[id] THEN c[id][fieldName] ELSE NilV

\* ------------------------------------------------------------------ world
\* What one call reads and writes: the table, the heap of Query objects, the
\* cache, and what the call has done so far (select round trips, statements
\* executed, the panic that aborted it).
Panic(w, msg) == [w EXCEPT !.panic = msg]
Panicked(w) == w.panic # "none"

NoRC == [q |-> 0, ids |-> <<>>]

\* ------------------------------------------------------------------ RecordCollection
Ids(rc) == rc.ids
IsEmpty(rc) == Len(rc.ids) = 0
RcLen(rc) == Len(rc.ids)

\* Filter: rs.query.cond = rs.query.cond.And(fieldName, op, data); return rs
Filter(w, rc, fieldName, op, s, l) ==
    [w |-> [w EXCEPT !.queries[rc.q].cond = And(@, fieldName, op, s, l)], rc |-> rc]

\* Exclude
Exclude(w, rc, fieldName, op, s, l) ==
    [w |-> [w EXCEPT !.queries[rc.q].cond = AndNot(@, fieldName, op, s, l)], rc |-> rc]

\* Search
Search(w, rc, cond) ==
    [w |-> [w EXCEPT !.queries[rc.q].cond = AndCond(@, cond)], rc |-> rc]

\* Limit
Limit(w, rc, limit) ==
    [w |-> [w EXCEPT !.queries[rc.q].limit = limit], rc |-> rc]

\* Offset
Offset(w, rc, offset) ==
    [w |-> [w EXCEPT !.queries[rc.q].offset = offset], rc |-> rc]

\* OrderBy
OrderBy(w, rc, exprs) ==
    [w |-> [w EXCEPT !.queries[rc.q].orders = @ \o exprs], rc |-> rc]

\* GroupBy
GroupBy(w, rc, exprs) ==
    [w |-> [w EXCEPT !.queries[rc.q].groups = @ \o exprs], rc |-> rc]

\* Distinct
Distinct(w, rc) ==
    [w |-> [w EXCEPT !.queries[rc.q].distinct = TRUE], rc |-> rc]

\* withIds: rSet := rc; rSet.ids = ids; when ids is not empty the condition of
\* the (shared) query is replaced by ("ID", "in", ids).
withIds(w, rc, ids) ==
    LET rSet == [rc EXCEPT !.ids = ids]
    IN  IF Len(ids) > 0
        THEN Filter([w EXCEPT !.queries[rc.q].cond = NewCondition], rSet, "ID", "in", "", ids)
        ELSE [w |-> w, rc |-> rSet]

\* The loop of Records collecting the singletons last identifier first.
RECURSIVE RecordsFromReversed(_, _, _)
RecordsFromReversed(w, rc, i) ==
    IF i > Len(Ids(rc)) THEN [w |-> w, recs |-> <<>>]
    ELSE LET r == withIds(w, rc, <<Ids(rc)[i]>>)
             rest == RecordsFromReversed(r.w, rc, i + 1)
         IN  [w |-> rest.w, recs |-> rest.recs \o <<r.rc>>]

\* Records: one withIds call per identifier, in order.
RECURSIVE RecordsFrom(_, _, _)
RecordsFrom(w, rc, i) ==
    IF i > Len(Ids(rc)) THEN [w |-> w, recs |-> <<>>]
    ELSE LET r == withIds(w, rc, <<Ids(rc)[i]>>)
             rest == RecordsFrom(r.w, rc, i + 1)
         IN  [w |-> rest.w, recs |-> <<r.rc>> \o rest.recs]

Records(w, rc) == RecordsFrom(w, rc, 1)

\* The loop of Read writing every row under the identifier of the first record.
RECURSIVE AddEntriesFirstId(_, _, _, _)
AddEntriesFirstId(c, recs, results, i) ==
    IF i > Len(recs) THEN c
    ELSE AddEntriesFirstId(addEntry(c, recs[1].ids[1], results[i]), recs, results, i + 1)

\* The loop of Read over rSet.Records(): addEntry(model, rec.ids[0], results[i]).
RECURSIVE AddEntries(_, _, _, _)
AddEntries(c, recs, results, i) ==
    IF i > Len(recs) THEN c
    ELSE AddEntries(addEntry(c, recs[i].ids[1], results[i]), recs, results, i + 1)

\* Read fetching all columns of the model whatever fields are asked for.
ReadAllColumns(w, rc, fields) ==
    LET dbFields == filterOnDBFields(nonRelatedFieldJSONNames)
        ids == SelectIds(w.queries[rc.q], w.db)
        results == [i \in 1..Len(ids) |-> RowOf(w.db, ids[i], dbFields)]
        r1 == withIds([w EXCEPT !.nsel = @ + 1], rc, ids)
        r2 == Records(r1.w, r1.rc)
    IN  [w |-> [r2.w EXCEPT !.cache = AddEntries(@, r2.recs, results, 1)], rc |-> r1.rc]

\* Read
Read(w, rc, fields) ==
    LET flds == IF Len(fields) = 0 THEN nonRelatedFieldJSONNames ELSE fields
        dbFields == filterOnDBFields(flds)
        ids == SelectIds(w.queries[rc.q], w.db)
        results == [i \in 1..Len(ids) |-> RowOf(w.db, ids[i], dbFields)]
        r1 == withIds([w EXCEPT !.nsel = @ + 1], rc, ids)
        r2 == Records(r1.w, r1.rc)
    IN  [w |-> [r2.w EXCEPT !.cache = AddEntries(@, r2.recs, results, 1)], rc |-> r1.rc]

\* ForceLazyLoad
ForceLazyLoad(w, rc) == Read(w, rc, <<"id">>)

\* LazyLoad without the test on the identifiers.
LazyLoadAlways(w, rc) == ForceLazyLoad(w, rc)

\* LazyLoad
LazyLoad(w, rc) ==
    IF Len(Ids(rc)) = 0 THEN ForceLazyLoad(w, rc) ELSE [w |-> w, rc |-> rc]

\* EnsureOne that only rejects the empty collection.
EnsureOneNotEmpty(w, rc) ==
    LET r == LazyLoad(w, rc)
    IN  IF Len(Ids(r.rc)) = 0 THEN Panic(r.w, "Expected singleton") ELSE r.w

\* EnsureOne: rSet := rc.LazyLoad(); panics unless rSet has one identifier.
EnsureOne(w, rc) ==
    LET r == LazyLoad(w, rc)
    IN  IF Len(Ids(r.rc)) # 1 THEN Panic(r.w, "Expected singleton") ELSE r.w

\* ID: rs.EnsureOne(); return rs.ids[0].  EnsureOne has a value receiver and
\* its loaded collection is dropped, so rs.ids is the receiver's own list;
\* indexing an empty slice is a runtime panic.
ID(w, rc) ==
    LET w1 == EnsureOne(w, rc)
    IN  IF Panicked(w1) THEN [w |-> w1, num |-> 0]
        ELSE IF Len(rc.ids) = 0 THEN [w |-> Panic(w1, "index out of range"), num |-> 0]
        ELSE [w |-> w1, num |-> rc.ids[1]]

\* Get that loads a collection without identifiers before it reads.
GetLoading(w, rc, fieldName) ==
    LET r == LazyLoad(w, rc)
    IN  IF IsEmpty(r.rc)
        THEN [w |-> r.w, val |-> Zero(fieldName)]
        ELSE LET w1 == IF ~checkIfInCache(r.w.cache, <<r.rc.ids[1]>>, <<fieldName>>)
                       THEN Read(r.w, r.rc, <<>>).w
                       ELSE r.w
             IN  [w |-> w1, val |-> cacheGet(w1.cache, r.rc.ids[1], fieldName)]

\* Get
Get(w, rc, fieldName) ==
    IF IsEmpty(rc)
    THEN IF ~fieldsGet(fieldName)
         THEN [w |-> Panic(w, "Unknown field in model"), val |-> NilV]
         ELSE [w |-> w, val |-> Zero(fieldName)]
    ELSE LET w1 == IF ~checkIfInCache(w.cache, <<rc.ids[1]>>, <<fieldName>>)
                   THEN Read(w, rc, <<>>).w
                   ELSE w
         IN  [w |-> w1, val |-> cacheGet(w1.cache, rc.ids[1], fieldName)]

\* updateQuery(fMap): UPDATE ... SET fMap WHERE <condition of the query>
updateQuery(q, fMap) == [verb |-> "update", where |-> WhereOf(q), set |-> fMap]

\* deleteQuery(): DELETE ... WHERE <condition of the query>
deleteQuery(q) == [verb |-> "delete", where |-> WhereOf(q), set |-> <<>>]

\* The records a statement acts on.
Hit(d, stmt) == {id \in DOMAIN d : Matches(stmt.where, id, d[id])}

\* DBExecute: runs the statement on the table and logs it.
DBExecute(w, stmt) ==
    LET hit == Hit(w.db, stmt)
        d2 == IF stmt.verb = "delete"
              THEN [id \in DOMAIN w.db \ hit |-> w.db[id]]
              ELSE [id \in DOMAIN w.db |->
                      IF id \in hit
                      THEN [f \in DataFields |->
                              IF f \in DOMAIN stmt.set THEN stmt.set[f] ELSE w.db[id][f]]
                      ELSE w.db[id]]
    IN  [w |-> [w EXCEPT !.db = d2, !.stmts = Append(@, stmt)], num |-> Cardinality(hit)]

\* rs.updateStoredFields(fMap): the recomputation of the stored computed
\* fields that depend on the fields of fMap, for the records of rs.  What it
\* is applied to is kept: the collection value it is called on, the condition
\* its Query renders at that moment, and the fields of fMap.
updateStoredFields(w, rs, fMap) ==
    [w EXCEPT !.recomp = Append(@, [rc |-> rs, where |-> WhereOf(w.queries[rs.q]),
                                    fields |-> DOMAIN fMap])]

\* update: the field map without the identifier and the non stored fields,
\* then updateQuery on the collection's query.  The registry of the model has
\* no computed field, so updateStoredFields has nothing to recompute.
update(w, rc, data) ==
    LET fMap == [f \in (DOMAIN data \ {"id", "ID"}) \cap DataFields |-> data[f]]
    IN  updateStoredFields(DBExecute(w, updateQuery(w.queries[rc.q], fMap)).w, rc, fMap)

\* delete: deleteQuery on the collection's query; the affected row count.
delete(w, rc) == DBExecute(w, deleteQuery(w.queries[rc.q]))

\* insertQuery(fMap): INSERT of the stored, non identifier columns present in
\* the map.
insertQuery(q, fMap) ==
    [verb |-> "insert", where |-> <<>>,
     set |-> [f \in DOMAIN fMap \cap DataFields |-> fMap[f]]]

\* DBGet of the insert statement: adds the row under the next identifier of
\* the table's sequence, columns not in the statement at their default, and
\* returns that identifier.
DBGet(w, stmt) ==
    LET createdId == w.seq
        row == [f \in DataFields |-> IF f \in DOMAIN stmt.set THEN stmt.set[f] ELSE Zero(f)]
    IN  [w |-> [w EXCEPT !.db = [id \in DOMAIN w.db \cup {createdId} |->
                                    IF id = createdId THEN row ELSE w.db[id]],
                         !.seq = @ + 1,
                         !.stmts = Append(@, stmt)],
         num |-> createdId]

\* create, lines 305-321: the field map handed to insertQuery.  "id" and "ID"
\* leave the map only when their value is 0; every registered field is
\* stored, so the loop over registryByJSON deletes nothing.
createFieldMap(data) ==
    LET strip == {k \in {"id", "ID"} \cap DOMAIN data : data[k] = IntV(0)}
    IN  [f \in DOMAIN data \ strip |-> data[f]]

\* create returning its receiver instead of rs.withIds([]int64{createdId}).
createOnReceiver(w, rc, data) ==
    LET fMap == [f \in DOMAIN data \ {"id", "ID"} |-> data[f]]
    IN  [w |-> DBGet(w, insertQuery(w.queries[rc.q], fMap)).w, rc |-> rc]

\* create: the field map, insertQuery and DBGet, updateStoredFields on the
\* receiver rs, then withIds on the receiver with the created identifier.
create(w, rc, data) ==
    LET fMap == createFieldMap(data)
        r == DBGet(w, insertQuery(w.queries[rc.q], fMap))
    IN  withIds(updateStoredFields(r.w, rc, fMap), rc, <<r.num>>)

\* newRecordCollection handing out the Query of the first collection again
\* instead of a new one.
newRecordCollectionShared(w, modelName) ==
    IF modelName \notin ModelNames
    THEN [w |-> Panic(w, "Unknown model"), rc |-> NoRC]
    ELSE LET rc == [q |-> 1, ids |-> <<>>]
         IN  [w |-> IF Len(w.queries) = 0
                    THEN [w EXCEPT !.queries = Append(@, [newQuery EXCEPT !.recordSet = rc])]
                    ELSE w,
              rc |-> rc]

\* newRecordCollection(env, modelName).  rc.query.recordSet = &rc points to
\* the function's own variable rc, whose ids stay make([]int64, 0): the
\* collections handed out afterwards are copies of it.
newRecordCollection(w, modelName) ==
    IF modelName \notin ModelNames
    THEN [w |-> Panic(w, "Unknown model"), rc |-> NoRC]
    ELSE LET rc == [q |-> Len(w.queries) + 1, ids |-> <<>>]
         IN  [w |-> [w EXCEPT !.queries = Append(@, [newQuery EXCEPT !.recordSet = rc])],
              rc |-> rc]

\* ------------------------------------------------------------------ strutils
\* tools/strutils.  A Go string is the sequence of its characters, each a
\* one character string; the inputs are ASCII, one byte per rune.

\* strconv.Itoa
DecimalDigits == <<"0", "1", "2", "3", "4", "5", "6", "7", "8", "9">>

RECURSIVE Itoa(_)
Itoa(n) ==
    IF n < 0 THEN <<"-">> \o Itoa(-n)
    ELSE IF n < 10 THEN <<DecimalDigits[n + 1]>>
    ELSE Itoa(n \div 10) \o <<DecimalDigits[(n % 10) + 1]>>

\* IsIn looking at the first string of the list only.
IsInFirst(str, lst) == Len(lst) > 0 /\ lst[1] = str

\* IsIn
IsIn(str, lst) == \E i \in 1..Len(lst) : str = lst[i]

\* MakeUnique: the loop, entered with the counter nb and the candidate tested.
RECURSIVE MakeUniqueLoop(_, _, _, _)
MakeUniqueLoop(str, pool, nb, tested) ==
    IF tested = <<>> \/ IsIn(tested, pool)
    THEN MakeUniqueLoop(str, pool, nb + 1, str \o Itoa(nb + 1))
    ELSE tested

MakeUnique(str, pool) == MakeUniqueLoop(str, pool, 0, str)

\* ContainsOnly: false as soon as a byte of lst differs from a byte of str.
ContainsOnly(str, lst) ==
    ~ \E i \in 1..Len(str) : \E j \in 1..Len(lst) : lst[j] # str[i]

\* Reverse leaving the string as it is.
ReverseNot(s) == s

\* Reverse
Reverse(s) == [i \in 1..Len(s) |-> s[Len(s) - i + 1]]

\* SplitAtN
SplitAtN(str, n) ==
    IF n > Len(str)
    THEN [out1 |-> str, out2 |-> <<>>]
    ELSE [out1 |-> SubSeq(str, 1, n), out2 |-> SubSeq(str, n + 1, Len(str))]

\* strings.TrimPrefix
TrimPrefix(s, prefix) ==
    IF Len(s) >= Len(prefix) /\ SubSeq(s, 1, Len(prefix)) = prefix
    THEN SubSeq(s, Len(prefix) + 1, Len(s))
    ELSE s

\* The group size used for "all the digits left".
BigGroup == 9999

\* FormatNumberStrWithGrouping, first loop: over the reversed grouping from
\* its i-th value.  ret tells that the function returned from inside it.
RECURSIVE GroupingLoop(_, _, _, _, _, _)
GroupingLoop(revGrouping, i, number, thSeparator, out, last) ==
    IF i > Len(revGrouping)
    THEN [ret |-> FALSE, out |-> out, number |-> number, last |-> last]
    ELSE LET n == IF revGrouping[i] = 0 THEN last ELSE revGrouping[i]
             sp == SplitAtN(number, n)
             out2 == IF sp.out1 # <<>> THEN out \o thSeparator \o sp.out1 ELSE out
         IN  IF sp.out2 = <<>>
             THEN [ret |-> TRUE, out |-> out2, number |-> <<>>, last |-> last]
             ELSE GroupingLoop(revGrouping, i + 1, sp.out2, thSeparator, out2, n)

\* Second loop: groups of n until the number is empty.
RECURSIVE RemainderLoop(_, _, _, _)
RemainderLoop(number, thSeparator, out, n) ==
    IF number = <<>> THEN out
    ELSE LET sp == SplitAtN(number, n)
         IN  RemainderLoop(sp.out2, thSeparator,
                           IF sp.out1 # <<>> THEN out \o thSeparator \o sp.out1 ELSE out, n)

\* FormatNumberStrWithGrouping.  grouping[0] of an empty grouping is an index
\* out of range: the function panics when it reaches the second loop with
\* digits left.
FormatNumberStrWithGrouping(number, grouping, thSeparator) ==
    LET rnumber == Reverse(number)
        rsep == Reverse(thSeparator)
        revGrouping == [i \in 1..Len(grouping) |-> grouping[Len(grouping) - i + 1]]
        l1 == GroupingLoop(revGrouping, 1, rnumber, rsep, <<>>, BigGroup)
    IN  IF l1.ret \/ l1.number = <<>>
        THEN [panic |-> "none", out |-> Reverse(TrimPrefix(l1.out, rsep))]
        ELSE IF Len(grouping) = 0
        THEN [panic |-> "index out of range", out |-> <<>>]
        ELSE [panic |-> "none",
              out |-> Reverse(TrimPrefix(
                          RemainderLoop(l1.number, rsep, l1.out,
                                        IF grouping[1] = 0 THEN l1.last ELSE BigGroup),
                          rsep))]

\* ------------------------------------------------------------------ state
VARIABLES
    nextId,    \* the next value of the table's identifier sequence
    db,        \* the table: identifier -> stored field values
    queries,   \* the heap of Query objects, by address
    cache,     \* env.cache: identifier -> cached field map
    held,      \* the RecordCollection values the caller holds
    last,      \* the last call: receiver, result, panic, what it executed
    steps,     \* calls made so far
    su         \* the last call of a strutils function: arguments and result

vars == <<db, queries, cache, held, last, steps, nextId, su>>

World0 ==
    [db |-> db, queries |-> queries, cache |-> cache, seq |-> nextId,
     nsel |-> 0, stmts |-> <<>>, recomp |-> <<>>, panic |-> "none"]

Outcome(op, rcv, field, w, rc, recs, val, num) ==
    [op |-> op, rcv |-> rcv, field |-> field, args |-> <<>>, data |-> <<>>, recomp |-> w.recomp,
     panic |-> w.panic, nsel |-> w.nsel, stmts |-> w.stmts,
     rc |-> IF Panicked(w) THEN NoRC ELSE rc,
     recs |-> IF Panicked(w) THEN <<>> ELSE recs,
     val |-> IF Panicked(w) THEN NilV ELSE val,
     num |-> IF Panicked(w) THEN 0 ELSE num]

Done(w, got, outcome) ==
    /\ steps < MaxSteps
    /\ db' = w.db
    /\ queries' = w.queries
    /\ cache' = w.cache
    /\ held' = IF Panicked(w) THEN held ELSE held \cup got
    /\ last' = outcome
    /\ steps' = steps + 1
    /\ nextId' = w.seq
    /\ su' = su

\* A call of a strutils function: what it was given and what it returned.
StrCall(fn, str, lst, pool, grouping, sep, panic, out, ok) ==
    [fn |-> fn, str |-> str, lst |-> lst, pool |-> pool, grouping |-> grouping,
     sep |-> sep, panic |-> panic, out |-> out, ok |-> ok]

Records0 == [Name : {StrV(n) : n \in Names}, Age : {IntV(1)}]

Init ==
    /\ db \in [1..NRec -> Records0]
    /\ nextId = NRec + 1
    /\ queries = <<>>
    /\ cache = <<>>
    /\ held = {}
    /\ last = Outcome("none", NoRC, "", World0, NoRC, <<>>, NilV, 0)
    /\ steps = 0
    /\ su = StrCall("none", <<>>, <<>>, <<>>, <<>>, <<>>, "none", <<>>, FALSE)

\* ------------------------------------------------------------------ calls
CondOf(rc) == queries[rc.q].cond

PoolCall(modelName) ==
    /\ Len(queries) < MaxQueries
    /\ LET r == newRecordCollection(World0, modelName)
       IN  Done(r.w, {r.rc}, Outcome("Pool", NoRC, modelName, r.w, r.rc, <<>>, NilV, 0))

FilterCall(rc, n) ==
    /\ Len(CondOf(rc)) < MaxCond
    /\ LET r == Filter(World0, rc, "Name", "=", n, <<>>)
       IN  Done(r.w, {r.rc}, Outcome("Filter", rc, "", r.w, r.rc, <<>>, NilV, 0))

ExcludeCall(rc, n) ==
    /\ Len(CondOf(rc)) < MaxCond
    /\ LET r == Exclude(World0, rc, "Name", "=", n, <<>>)
       IN  Done(r.w, {r.rc}, Outcome("Exclude", rc, "", r.w, r.rc, <<>>, NilV, 0))

SearchCall(rc, cond) ==
    /\ Len(CondOf(rc)) + Len(cond) <= MaxCond
    /\ LET r == Search(World0, rc, cond)
       IN  Done(r.w, {r.rc}, Outcome("Search", rc, "", r.w, r.rc, <<>>, NilV, 0))

LimitCall(rc, n) ==
    LET r == Limit(World0, rc, n)
    IN  Done(r.w, {r.rc}, Outcome("Limit", rc, "", r.w, r.rc, <<>>, NilV, 0))

OffsetCall(rc, n) ==
    LET r == Offset(World0, rc, n)
    IN  Done(r.w, {r.rc}, Outcome("Offset", rc, "", r.w, r.rc, <<>>, NilV, 0))

OrderByCall(rc, exprs) ==
    /\ Len(queries[rc.q].orders) + Len(exprs) <= MaxList
    /\ LET r == OrderBy(World0, rc, exprs)
       IN  Done(r.w, {r.rc}, Outcome("OrderBy", rc, "", r.w, r.rc, <<>>, NilV, 0))

GroupByCall(rc, exprs) ==
    /\ Len(queries[rc.q].groups) + Len(exprs) <= MaxList
    /\ LET r == GroupBy(World0, rc, exprs)
       IN  Done(r.w, {r.rc}, Outcome("GroupBy", rc, "", r.w, r.rc, <<>>, NilV, 0))

DistinctCall(rc) ==
    LET r == Distinct(World0, rc)
    IN  Done(r.w, {r.rc}, Outcome("Distinct", rc, "", r.w, r.rc, <<>>, NilV, 0))

ReadCall(rc, fields) ==
    LET r == Read(World0, rc, fields)
    IN  Done(r.w, {r.rc},
             [Outcome("Read", rc, "", r.w, r.rc, <<>>, NilV, 0) EXCEPT !.args = fields])

LazyLoadCall(rc) ==
    LET r == LazyLoad(World0, rc)
    IN  Done(r.w, {r.rc}, Outcome("LazyLoad", rc, "", r.w, r.rc, <<>>, NilV, 0))

RecordsCall(rc) ==
    LET r == Records(World0, rc)
    IN  Done(r.w, Range(r.recs), Outcome("Records", rc, "", r.w, NoRC, r.recs, NilV, 0))

GetCall(rc, fieldName) ==
    LET r == Get(World0, rc, fieldName)
    IN  Done(r.w, {}, Outcome("Get", rc, fieldName, r.w, NoRC, <<>>, r.val, 0))

LenCall(rc) ==
    Done(World0, {}, Outcome("Len", rc, "", World0, NoRC, <<>>, NilV, RcLen(rc)))

EnsureOneCall(rc) ==
    LET w == EnsureOne(World0, rc)
    IN  Done(w, {}, Outcome("EnsureOne", rc, "", w, NoRC, <<>>, NilV, 0))

IDCall(rc) ==
    LET r == ID(World0, rc)
    IN  Done(r.w, {}, Outcome("ID", rc, "", r.w, NoRC, <<>>, NilV, r.num))

UpdateCall(rc, data) ==
    LET w == update(World0, rc, data)
    IN  Done(w, {}, Outcome("update", rc, "", w, NoRC, <<>>, NilV, 0))

DeleteCall(rc) ==
    LET r == delete(World0, rc)
    IN  Done(r.w, {}, Outcome("delete", rc, "", r.w, NoRC, <<>>, NilV, r.num))

CreateCall(rc, data) ==
    /\ nextId <= NRec + MaxCreate
    /\ LET r == create(World0, rc, data)
       IN  Done(r.w, {r.rc},
                [Outcome("create", rc, "", r.w, r.rc, <<>>, NilV, 0) EXCEPT !.data = data])

\* ------------------------------------------------------------------ inputs
PoolNames == {"User", "Nope"}
SearchConds == {And(NewCondition, "Name", "=", "a", <<>>)}
ReadFields == {<<>>, <<"id">>, <<"Name">>}
GetFields == {"Name", "Age"}
UpdateData == {"Age" :> IntV(2), ("id" :> IntV(0)) @@ ("Name" :> StrV("b"))}
CreateData ==
    {"Name" :> StrV("a"),
     ("Name" :> StrV("b")) @@ ("Age" :> IntV(2)),
     ("id" :> IntV(0)) @@ ("Name" :> StrV("b"))}

Next ==
    \/ \E m \in PoolNames : PoolCall(m)
    \/ \E rc \in held, n \in Names : FilterCall(rc, n)
    \/ \E rc \in held : LimitCall(rc, 1)
    \/ \E rc \in held, f \in ReadFields : ReadCall(rc, f)
    \/ \E rc \in held : LazyLoadCall(rc)
    \/ \E rc \in held : RecordsCall(rc)
    \/ \E rc \in held, f \in GetFields : GetCall(rc, f)
    \/ \E rc \in held : LenCall(rc)
    \/ \E rc \in held : EnsureOneCall(rc)
    \/ \E rc \in held : IDCall(rc)
    \/ \E rc \in held, d \in UpdateData : UpdateCall(rc, d)
    \/ \E rc \in held : DeleteCall(rc)

ChainNext ==
    \/ \E rc \in held, n \in Names : ExcludeCall(rc, n)
    \/ \E rc \in held, c \in SearchConds : SearchCall(rc, c)
    \/ \E rc \in held : OffsetCall(rc, 1)
    \/ \E rc \in held : OrderByCall(rc, <<"Name">>)
    \/ \E rc \in held : GroupByCall(rc, <<"Name">>)
    \/ \E rc \in held : DistinctCall(rc)

SpecChain == Init /\ [][Next \/ ChainNext]_vars

Spec == Init /\ [][Next]_vars

\* Creation and what reads the created record back.
NextCreate ==
    \/ \E m \in PoolNames : PoolCall(m)
    \/ \E rc \in held, n \in Names : FilterCall(rc, n)
    \/ \E rc \in held, d \in CreateData : CreateCall(rc, d)
    \/ \E rc \in held, f \in ReadFields : ReadCall(rc, f)
    \/ \E rc \in held, f \in GetFields : GetCall(rc, f)
    \/ \E rc \in held : LenCall(rc)
    \/ \E rc \in held : DeleteCall(rc)

SpecCreate == Init /\ [][NextCreate]_vars

\* Resolved handles and what is done next to them: creation with any
\* identifier in the data, Filter on collections without identifiers, Get of
\* any field name.
CreateDataAll ==
    CreateData \cup {("id" :> IntV(7)) @@ ("Name" :> StrV("a")),
                     ("ID" :> IntV(0)) @@ ("Name" :> StrV("a"))}
GetFieldsAll == GetFields \cup {"Nope"}

NextHandle ==
    \/ \E m \in PoolNames : PoolCall(m)
    \/ \E rc \in held, n \in Names : Len(rc.ids) = 0 /\ FilterCall(rc, n)
    \/ \E rc \in held, d \in CreateDataAll : CreateCall(rc, d)
    \/ \E rc \in held, f \in ReadFields : ReadCall(rc, f)
    \/ \E rc \in held : RecordsCall(rc)
    \/ \E rc \in held, f \in GetFieldsAll : GetCall(rc, f)
    \/ \E rc \in held, d \in UpdateData : UpdateCall(rc, d)
    \/ \E rc \in held : DeleteCall(rc)

SpecHandle == Init /\ [][NextHandle]_vars

\* ------------------------------------------------------------------ strutils calls
\* The functions are pure: a behaviour makes one call, on any of the inputs.
ContainsOnlyCall(str, lst) ==
    /\ su.fn = "none"
    /\ su' = StrCall("ContainsOnly", str, lst, <<>>, <<>>, <<>>, "none", <<>>,
                     ContainsOnly(str, lst))
    /\ UNCHANGED <<db, queries, cache, held, last, steps, nextId>>

MakeUniqueCall(str, pool) ==
    /\ su.fn = "none"
    /\ su' = StrCall("MakeUnique", str, <<>>, pool, <<>>, <<>>, "none",
                     MakeUnique(str, pool), FALSE)
    /\ UNCHANGED <<db, queries, cache, held, last, steps, nextId>>

FormatNumberStrWithGroupingCall(number, grouping, thSeparator) ==
    LET r == FormatNumberStrWithGrouping(number, grouping, thSeparator)
    IN  /\ su.fn = "none"
        /\ su' = StrCall("FormatNumberStrWithGrouping", number, <<>>, <<>>, grouping,
                         thSeparator, r.panic, r.out, FALSE)
        /\ UNCHANGED <<db, queries, cache, held, last, steps, nextId>>

\* Sequences over S of length 0..n.
SeqUpTo(S, n) == UNION {[1..k -> S] : k \in 0..n}

Bytes == {"a", "b", "c"}
ListBytes == {"a", "b"}
PoolWords == {<<>>, <<"a">>, <<"a", "1">>, <<"a", "2">>, <<"a", "3">>, <<"1">>, <<"2">>}
BaseWords == {<<>>, <<"a">>}
Numbers == {[i \in 1..k |-> DecimalDigits[(i % 10) + 1]] : k \in 0..MaxDigits}
Groupings == SeqUpTo(0..3, MaxGroup)
Separators == {<<",">>, <<".", " ">>}

NextStr ==
    \/ \E str \in SeqUpTo(Bytes, MaxStr), lst \in SeqUpTo(ListBytes, MaxLst) :
           ContainsOnlyCall(str, lst)
    \/ \E str \in BaseWords, pool \in SeqUpTo(PoolWords, MaxPool) : MakeUniqueCall(str, pool)
    \/ \E number \in Numbers, grouping \in Groupings, sep \in Separators :
           FormatNumberStrWithGroupingCall(number, grouping, sep)

\* The functions read nothing of the record collections: one table is enough.
InitStr == Init /\ \A id \in DOMAIN db : db[id].Name = StrV("a")

SpecStr == InitStr /\ [][NextStr]_vars

\* ------------------------------------------------------------------ properties
\* A step is a call of `op`: it is the call `last` describes afterwards.
Called(op) == steps' = steps + 1 /\ last'.op = op

Mutators ==
    {"Filter", "Exclude", "Search", "Limit", "Offset", "OrderBy", "GroupBy", "Distinct"}

\* The collection was built by Pool and Filter only: it has no identifiers and
\* its condition is made of field clauses, none written by withIds.
FilterOnly(rc) ==
    /\ Len(rc.ids) = 0
    /\ Len(CondOf(rc)) > 0
    /\ \A i \in 1..Len(CondOf(rc)) : CondOf(rc)[i].op = "="

\* The records matching the collection's filter, in row order.
Matching(rc) == SelectIds(queries[rc.q], db)

\* C1: chaining purity.  A call of a shape mutator on a collection leaves the
\* query shape seen through that collection (the receiver) as it was; the
\* returned collection is a copy of the receiver, so this is also "a further
\* mutator applied to the result leaves the shape of the original unchanged".
C1_ChainingPurity ==
    [][\A op \in Mutators :
         Called(op) => Shape(queries'[last'.rcv.q]) = Shape(queries[last'.rcv.q])]_vars

\* The record belongs to the collection: it is one of its identifiers, or,
\* for a collection without identifiers, it matches the collection's filter.
Belongs(rc, id) ==
    IF Len(rc.ids) > 0 THEN id \in Range(rc.ids) ELSE Matches(CondOf(rc), id, db[id])

\* C2: scoped update.  update(data) changes field values only of records
\* that belong to the receiver; every other record keeps all its values.
C2_ScopedUpdate ==
    [][Called("update") =>
         \A id \in DOMAIN db :
             ~Belongs(last'.rcv, id) => (id \in DOMAIN db' /\ db'[id] = db[id])]_vars

\* C3: complete update.  update(data) on a collection with several
\* identifiers gives every record of its identifier set the new values.
C3_CompleteUpdate ==
    [][(Called("update") /\ Len(last'.rcv.ids) >= 2) =>
         \A id \in Range(last'.rcv.ids) \cap DOMAIN db :
             \A f \in DOMAIN last'.stmts[1].set : db'[id][f] = last'.stmts[1].set[f]]_vars

\* C4 as claimed: idempotence of LazyLoad.  A LazyLoad() on the collection a
\* previous LazyLoad() returned (resolved, possibly to no identifier) issues
\* no query and returns the same identifiers.
C4_LazyLoadIdempotent ==
    [][(Called("LazyLoad") /\ last.op = "LazyLoad" /\ last'.rcv = last.rc) =>
         (last'.nsel = 0 /\ last'.rc.ids = last.rc.ids)]_vars

\* C4 as amended: LazyLoad() on a collection that has identifiers issues no
\* query, changes nothing and returns the collection itself; on a collection
\* without identifiers (not loaded yet, or loaded to no record) every
\* LazyLoad() issues exactly one select query and returns its rows.
C4_LazyLoadByIds ==
    [][Called("LazyLoad") =>
         IF Len(last'.rcv.ids) > 0
         THEN /\ last'.nsel = 0
              /\ last'.rc = last'.rcv
              /\ UNCHANGED <<db, queries, cache>>
         ELSE /\ last'.nsel = 1
              /\ last'.rc.ids = Matching(last'.rcv)]_vars

C4_Witness ==
    /\ last.op = "LazyLoad"
    /\ Len(last.rcv.ids) > 0
    /\ last.nsel = 0

\* C5: EnsureOne guard.  EnsureOne() resolves the collection (one select when
\* it has no identifiers), panics with "Expected singleton" exactly when the
\* resolved identifier list has not one element, and on the panicking path no
\* statement is executed, the table is unchanged and nothing is returned.
C5_EnsureOneGuard ==
    [][Called("EnsureOne") =>
         LET rcv == last'.rcv
             resolved == IF Len(rcv.ids) > 0 THEN rcv.ids ELSE Matching(rcv)
         IN  /\ last'.nsel = (IF Len(rcv.ids) > 0 THEN 0 ELSE 1)
             /\ last'.panic = (IF Len(resolved) = 1 THEN "none" ELSE "Expected singleton")
             /\ last'.stmts = <<>>
             /\ db' = db
             /\ last'.rc = NoRC /\ last'.val = NilV /\ last'.recs = <<>>]_vars

C5_Witness ==
    /\ last.op = "EnsureOne"
    /\ last.panic = "Expected singleton"
    /\ last.nsel = 1
    /\ Cardinality(DOMAIN cache) >= 2

\* C6: ID() fails only with the singleton diagnostic, and on a collection on
\* which EnsureOne() passes it returns the identifier of the unique record.
C6_IDOfSingleton ==
    [][Called("ID") =>
         LET rcv == last'.rcv
             resolved == IF Len(rcv.ids) > 0 THEN rcv.ids ELSE Matching(rcv)
         IN  /\ last'.panic \in {"none", "Expected singleton"}
             /\ Len(resolved) = 1 => (last'.panic = "none" /\ last'.num = resolved[1])]_vars

\* C7: Get(field) on a collection built by Filter only, whose filter matches
\* a record, returns the stored value of the field for the first matching
\* record.
C7_GetResolves ==
    [][(Called("Get") /\ FilterOnly(last'.rcv) /\ Len(Matching(last'.rcv)) > 0) =>
         last'.val = db[Matching(last'.rcv)[1]][last'.field]]_vars

\* C8: Len() of a collection built by Filter only is the number of records
\* that match its filter.
C8_LenCountsMatches ==
    [][(Called("Len") /\ FilterOnly(last'.rcv)) =>
         last'.num = Len(Matching(last'.rcv))]_vars

C10_ReadIdsAndCache ==
    [][Called("Read") =>
         LET rows == Matching(last'.rcv)
         IN  /\ last'.nsel = 1
             /\ last'.rc.ids = rows
             /\ last'.rc.q = last'.rcv.q
             /\ \A id \in Range(rows) :
                    /\ id \in DOMAIN cache'
                    /\ \A f \in DOMAIN cache'[id] :
                           cache'[id][f] = (IF f = "id" THEN IntV(id) ELSE db[id][f])
             /\ \A id \in DOMAIN cache' \ Range(rows) :
                    id \in DOMAIN cache /\ cache'[id] = cache[id]]_vars

C10_Witness ==
    /\ last.op = "Read"
    /\ Len(last.rc.ids) >= 2
    /\ Range(last.rc.ids) \subseteq DOMAIN cache
    /\ Range(last.rc.ids) # DOMAIN db

\* C11: Records() on a collection with identifiers [i1..in] returns n
\* collections, the k-th being the receiver's collection with the identifier
\* list [ik], in the same order; the receiver keeps its identifier list.
C11_RecordsSingletons ==
    [][Called("Records") =>
         LET rcv == last'.rcv
         IN  /\ last'.panic = "none"
             /\ Len(last'.recs) = Len(rcv.ids)
             /\ \A k \in 1..Len(rcv.ids) :
                    last'.recs[k] = [q |-> rcv.q, ids |-> <<rcv.ids[k]>>]
             /\ rcv \in held'
             /\ held' = held \cup Range(last'.recs)
             /\ last'.nsel = 0
             /\ UNCHANGED <<db, cache>>]_vars

C11_Witness ==
    /\ last.op = "Records"
    /\ Len(last.recs) >= 2
    /\ last.recs[1].ids # last.recs[2].ids

\* C12: a singleton returned by Records() reads its own record.  Get(field)
\* through a collection of one identifier, whose record is in the table and
\* whose field is not in the cache yet, returns the stored value of the field
\* of that record.
C12_SingletonGet ==
    [][(Called("Get") /\ Len(last'.rcv.ids) = 1
          /\ last'.rcv.ids[1] \in DOMAIN db
          /\ ~checkIfInCache(cache, last'.rcv.ids, <<last'.field>>)) =>
         last'.val = db[last'.rcv.ids[1]][last'.field]]_vars

\* C14: delete scoping.  delete() removes exactly the records of the
\* receiver that are in the table, leaves every other record as it was, and
\* returns the number of records it removed.
C14_DeleteScoping ==
    [][Called("delete") =>
         LET mine == {id \in DOMAIN db : Belongs(last'.rcv, id)}
         IN  /\ DOMAIN db' = DOMAIN db \ mine
             /\ \A id \in DOMAIN db' : db'[id] = db[id]
             /\ last'.num = Cardinality(mine)]_vars

\* The field list Read(fields) fetches: all columns of the model when none is
\* given.
Requested(fields) == IF Len(fields) = 0 THEN nonRelatedFieldJSONNames ELSE fields

\* C15: cache consistency after Read.  After Read(fields), checkIfInCache
\* is true for the fetched identifiers and the requested field list, for
\* every fetched identifier and every single requested field, and false for
\* a fetched identifier and the requested list extended with a field that was
\* not requested.
C15_CacheAfterRead ==
    [][Called("Read") =>
         LET req == Requested(last'.args)
             ids == last'.rc.ids
         IN  /\ checkIfInCache(cache', ids, req)
             /\ \A k \in 1..Len(ids) :
                    /\ \A f \in Range(req) : checkIfInCache(cache', <<ids[k]>>, <<f>>)
                    /\ \A u \in (KnownFields \cup {"Unrequested"}) \ (Range(req) \cup {"id"}) :
                           ~checkIfInCache(cache', <<ids[k]>>, Append(req, u))]_vars

C15_Witness ==
    /\ last.op = "Read"
    /\ last.args = <<"Name">>
    /\ Len(last.rc.ids) >= 2
    /\ checkIfInCache(cache, last.rc.ids, <<"Name">>)
    /\ ~checkIfInCache(cache, last.rc.ids, <<"Name", "Age">>)

\* C16: Pool(modelName).  For a known model the collection returned has no
\* identifiers and an empty condition, and its Query is a new object: no
\* collection handed out before points to it and the Query objects of the
\* earlier collections are left as they were.  For an unknown model the call
\* aborts with "Unknown model", returns no collection and changes nothing.
\* Every call through a collection leaves the Query objects of the other
\* Pool calls as they were.
C16_PoolFresh ==
    [][/\ (Called("Pool") /\ last'.field \in ModelNames) =>
             /\ last'.panic = "none"
             /\ last'.rc.ids = <<>>
             /\ last'.rc.q \notin DOMAIN queries
             /\ \A h \in held : h.q # last'.rc.q
             /\ queries'[last'.rc.q].cond = NewCondition
             /\ Shape(queries'[last'.rc.q]) = Shape(newQuery)
             /\ \A q \in DOMAIN queries : queries'[q] = queries[q]
             /\ held' = held \cup {last'.rc}
       /\ (Called("Pool") /\ last'.field \notin ModelNames) =>
             /\ last'.panic = "Unknown model"
             /\ last'.rc = NoRC
             /\ UNCHANGED <<db, queries, cache, held>>
       /\ (steps' = steps + 1 /\ last'.op # "Pool") =>
             \A q \in DOMAIN queries \ {last'.rcv.q} : queries'[q] = queries[q]]_vars

C16_Witness ==
    /\ last.op = "Pool"
    /\ last.panic = "none"
    /\ last.rc.q = 2
    /\ queries[1].cond # NewCondition
    /\ queries[2].cond = NewCondition

\* C20: destructive operations are deferred until the identifiers are
\* resolved.  update() and delete() on a collection that has a condition and
\* no identifiers run a select first, and every statement they execute is
\* restricted to a list of identifiers.
C20_DeferredDestructive ==
    [][((Called("update") \/ Called("delete")) /\ FilterOnly(last'.rcv)) =>
         /\ last'.nsel >= 1
         /\ \A i \in 1..Len(last'.stmts) :
                \E k \in 1..Len(last'.stmts[i].where) : last'.stmts[i].where[k].op = "in"]_vars

\* The stored, non identifier fields supplied to the create call recorded in o.
Supplied(o) == DOMAIN o.data \cap DataFields

\* C13: create round trip.  create(data) returns a collection of exactly
\* one identifier, the positive identifier the insert generated, which was
\* not in the table before; the new record holds every supplied stored
\* field and the other records are untouched.  A Read or a Get made next
\* through the returned collection reads that record: Read returns the same
\* identifier and caches the supplied values, Get returns the supplied value.
C13_CreateRoundTrip ==
    [][/\ Called("create") =>
             LET id == last'.rc.ids[1]
             IN  /\ last'.panic = "none"
                 /\ Len(last'.rc.ids) = 1
                 /\ id > 0
                 /\ id = nextId
                 /\ id \notin DOMAIN db
                 /\ DOMAIN db' = DOMAIN db \cup {id}
                 /\ \A f \in Supplied(last') : db'[id][f] = last'.data[f]
                 /\ \A x \in DOMAIN db : db'[x] = db[x]
       /\ (Called("Read") /\ last.op = "create" /\ last'.rcv = last.rc) =>
             /\ last'.rc.ids = last.rc.ids
             /\ \A f \in Supplied(last) \cap Range(Requested(last'.args)) :
                    cacheGet(cache', last.rc.ids[1], f) = last.data[f]
       /\ (Called("Get") /\ last.op = "create" /\ last'.rcv = last.rc
             /\ last'.field \in Supplied(last)) =>
             last'.val = last.data[last'.field]]_vars

C13_Witness ==
    /\ last.op = "Read"
    /\ last.args = <<>>
    /\ Len(last.rc.ids) = 1
    /\ last.rc.ids[1] > NRec
    /\ cacheGet(cache, last.rc.ids[1], "Age") = IntV(2)
    /\ cacheGet(cache, last.rc.ids[1], "Name") = StrV("b")

\* C17: ContainsOnly(str, lst...) is true exactly when every byte of str is
\* equal to at least one byte of lst.
C17_ContainsOnly ==
    su.fn = "ContainsOnly" =>
        (su.ok <=> \A i \in 1..Len(su.str) : \E j \in 1..Len(su.lst) : su.lst[j] = su.str[i])

\* The value of a decimal numeral.
RECURSIVE DecimalValue(_)
DecimalValue(ds) ==
    IF Len(ds) = 0 THEN 0
    ELSE 10 * DecimalValue(SubSeq(ds, 1, Len(ds) - 1))
         + (CHOOSE d \in 0..9 : DecimalDigits[d + 1] = ds[Len(ds)])

\* s is str followed by the decimal numeral of the positive integer n.
Numbered(s, str, n) ==
    /\ Len(s) > Len(str)
    /\ SubSeq(s, 1, Len(str)) = str
    /\ \A i \in (Len(str) + 1)..Len(s) : s[i] \in Range(DecimalDigits)
    /\ s[Len(str) + 1] # "0"
    /\ DecimalValue(SubSeq(s, Len(str) + 1, Len(s))) = n

\* C18: MakeUnique(str, pool) returns a non-empty string that is not in
\* pool: str itself when str is non-empty and not in pool, otherwise str
\* followed by the smallest positive integer n such that str+n is not in pool.
C18_MakeUnique ==
    su.fn = "MakeUnique" =>
        /\ su.out # <<>>
        /\ su.out \notin Range(su.pool)
        /\ IF su.str # <<>> /\ su.str \notin Range(su.pool)
           THEN su.out = su.str
           ELSE \E n \in 1..(Len(su.pool) + 1) :
                    /\ Numbered(su.out, su.str, n)
                    /\ \A m \in 1..(n - 1) :
                           \E i \in 1..Len(su.pool) : Numbered(su.pool[i], su.str, m)

C18_Witness ==
    /\ su.fn = "MakeUnique"
    /\ su.str = <<"a">>
    /\ su.pool = << <<"a", "2">>, <<"a">>, <<"a", "1">> >>
    /\ su.out = <<"a", "3">>

\* The groupings the documentation of NumberGrouping describes: positive
\* values, the first of which may be preceded by a 0.
WellFormedGrouping(g) ==
    /\ Len(g) >= 1
    /\ \A i \in 2..Len(g) : g[i] > 0
    /\ g[1] = 0 => Len(g) >= 2

GroupSizes(g) == IF g[1] = 0 THEN Tail(g) ELSE g

\* The sum of the last j values of s.
RECURSIVE SumLast(_, _)
SumLast(s, j) == IF j = 0 THEN 0 ELSE s[Len(s) - j + 1] + SumLast(s, j - 1)

\* The places of the separators in a number of len digits, each given as the
\* number of digits on its right: the sizes read from last to first, then,
\* with a leading 0, the first size again and again.
SeparatorPlaces(len, g) ==
    LET s == GroupSizes(g)
        total == SumLast(s, Len(s))
    IN  {c \in 1..(len - 1) :
            \/ \E j \in 1..Len(s) : c = SumLast(s, j)
            \/ g[1] = 0 /\ c > total /\ (c - total) % s[1] = 0}

\* The digits of number from the i-th on, with sep at the places.
RECURSIVE Grouped(_, _, _, _)
Grouped(number, places, sep, i) ==
    IF i > Len(number) THEN <<>>
    ELSE <<number[i]>> \o (IF Len(number) - i \in places THEN sep ELSE <<>>)
         \o Grouped(number, places, sep, i + 1)

\* C19: FormatNumberStrWithGrouping on a digit string and a documented
\* grouping returns the digits of number in their order with the separator
\* between the groups, the groups counted from the right having the sizes of
\* the grouping read from last to first, the first size repeated until the
\* digits are exhausted when the grouping starts with 0, and the remaining
\* digits in one group when it does not.
C19_FormatGrouping ==
    (su.fn = "FormatNumberStrWithGrouping" /\ WellFormedGrouping(su.grouping)) =>
        /\ su.panic = "none"
        /\ su.out = Grouped(su.str, SeparatorPlaces(Len(su.str), su.grouping), su.sep, 1)

C19_Witness ==
    /\ su.fn = "FormatNumberStrWithGrouping"
    /\ su.str = <<"1", "2", "3", "4", "5", "6", "7", "8", "9">>
    /\ su.grouping = <<0, 2, 3>>
    /\ su.sep = <<",">>
    /\ su.out = <<"1", "2", ",", "3", "4", ",", "5", "6", ",", "7", "8", "9">>

\* C21: Get populates the cache for the record it reads.  After Get(field)
\* returns on a collection with at least one identifier, whose first record
\* is in the table, the cache holds a value of field for that identifier and
\* the value returned is the cached one; a Get(field) that directly follows
\* on the same collection executes no select.
C21_GetPopulatesCache ==
    [][/\ (Called("Get") /\ Len(last'.rcv.ids) >= 1 /\ last'.rcv.ids[1] \in DOMAIN db) =>
             /\ last'.panic = "none"
             /\ checkIfInCache(cache', <<last'.rcv.ids[1]>>, <<last'.field>>)
             /\ last'.val = cacheGet(cache', last'.rcv.ids[1], last'.field)
       /\ (Called("Get") /\ last.op = "Get" /\ last'.rcv = last.rcv
             /\ last'.field = last.field /\ Len(last'.rcv.ids) >= 1
             /\ last'.rcv.ids[1] \in DOMAIN db) =>
             last'.nsel = 0]_vars

\* C22: create never inserts a caller-supplied identifier or a field that
\* is not stored.  The field map create hands to insertQuery has neither the
\* key "id" nor the key "ID" and only stored fields of the model.
C22_CreateStripsId ==
    [][Called("create") =>
         LET fMap == createFieldMap(last'.data)
         IN  /\ DOMAIN fMap \cap {"id", "ID"} = {}
             /\ DOMAIN fMap \subseteq DataFields]_vars

\* C23: dependency propagation on create.  The recomputation of the stored
\* computed fields made by a create call is applied once, to the record
\* created (the collection create returns and a condition selecting its
\* identifier), not to the receiver's identifiers or query.
C23_CreateRecomputesCreated ==
    [][Called("create") =>
         /\ Len(last'.recomp) = 1
         /\ last'.recomp[1].rc = last'.rc
         /\ {id \in DOMAIN db' : Matches(last'.recomp[1].where, id, db'[id])}
                = Range(last'.rc.ids)]_vars

\* C24: unknown field is fatal.  Get(fieldName) with a name that is not in
\* the registry of the model panics with "Unknown field in model", returns no
\* value, executes no select and changes nothing, whether the collection has
\* identifiers or not.
C24_UnknownFieldFatal ==
    [][(Called("Get") /\ ~fieldsGet(last'.field)) =>
         /\ last'.panic = "Unknown field in model"
         /\ last'.val = NilV
         /\ last'.nsel = 0
         /\ UNCHANGED <<db, queries, cache>>]_vars

\* C25: a resolved handle stays bound to its own records.  For every
\* collection the caller holds that has identifiers, the condition its Query
\* renders for the next select, update or delete selects exactly the records
\* of its identifier list.
C25_HandleBound ==
    \A r \in held :
        Len(r.ids) > 0 =>
            {id \in DOMAIN db : Matches(WhereOf(queries[r.q]), id, db[id])}
                = Range(r.ids) \cap DOMAIN db

====
